---- MODULE Spec2Model ----
(***************************************************************************)
(* Model of the assembly parser and knowledge base of src/src/main.rs:     *)
(* parse_data, the three print_* queries and the file loop of app().       *)
(*                                                                         *)
(* A str is a sequence of one-character strings, so that starts_with,      *)
(* ends_with, trim, find and the byte slices of parse_data are computed    *)
(* as the code computes them.  An assembly text is the sequence of its     *)
(* lines (what assembly.lines() iterates over).                            *)
(***************************************************************************)
EXTENDS Integers, Sequences, FiniteSets, TLC

VARIABLES
    corpus,     \* path -> the text the compiler emits for that file (index in TextTable)
    parsed,     \* the ParsedData aggregate
    history,    \* the parse_data calls so far, in order: object and scan trace
    out         \* what the query printed or returned

vars == <<corpus, parsed, history, out>>

(***************************************************************************)
(* Bounds of the model.                                                    *)
(***************************************************************************)
MaxParses == 2      \* iterations of the file loop of app()
MaxBody == 2        \* lines between a label and its .size in generated texts

(***************************************************************************)
(* str primitives.                                                         *)
(***************************************************************************)
Tab == "\t"
Whitespace == {" ", Tab}

starts_with(s, p) == Len(s) >= Len(p) /\ SubSeq(s, 1, Len(p)) = p

ends_with(s, p) == Len(s) >= Len(p) /\ SubSeq(s, Len(s) - Len(p) + 1, Len(s)) = p

\* s[a..b] of Rust: bytes a (inclusive) to b (exclusive), counted from 0.
\* Rust panics when a > b or b > len; no text of the model makes it so.
slice(s, a, b) == SubSeq(s, a + 1, b)

\* str::trim; the texts of the model hold no other whitespace.
trim(s) ==
    LET keep == {i \in 1..Len(s) : s[i] \notin Whitespace}
        lo == CHOOSE i \in keep : \A j \in keep : i <= j
        hi == CHOOSE i \in keep : \A j \in keep : j <= i
    IN  IF keep = {} THEN <<>> ELSE SubSeq(s, lo, hi)

\* str::find: byte offset (from 0) of the first match as <<i>>, <<>> when none.
find(s, c) ==
    LET hits == {i \in 1..Len(s) : s[i] = c}
    IN  IF hits = {} THEN <<>>
        ELSE <<(CHOOSE i \in hits : \A j \in hits : i <= j) - 1>>

(***************************************************************************)
(* The literals parse_data matches on.                                     *)
(***************************************************************************)
DotType == <<".", "t", "y", "p", "e">>
DotTypeTab == DotType \o <<Tab>>
AtFunction == <<"@", "f", "u", "n", "c", "t", "i", "o", "n">>
CommaAtFunction == <<",", " ">> \o AtFunction
DotWeakTab == <<".", "w", "e", "a", "k", Tab>>
DotGloblTab == <<".", "g", "l", "o", "b", "l", Tab>>
DotSetTab == <<".", "s", "e", "t", Tab>>
DotSizeTab == <<".", "s", "i", "z", "e", Tab>>
Dot == <<".">>
CallTab == <<"c", "a", "l", "l", Tab>>
StarPercent == <<"*", "%">>
AtPLT == <<"@", "P", "L", "T">>
Colon == <<":">>

(***************************************************************************)
(* HashMap and Option primitives.  A map is a function on its key set;     *)
(* Option is <<>> for None and <<v>> for Some(v).                          *)
(***************************************************************************)
EmptyMap == <<>>
None == <<>>
Some(v) == <<v>>

get(m, k) == IF k \in DOMAIN m THEN Some(m[k]) ELSE None

insert(m, k, v) == [x \in DOMAIN m \cup {k} |-> IF x = k THEN v ELSE m[x]]

\* m.entry(k).or_insert(v): the map afterwards.
or_insert(m, k, v) == IF k \in DOMAIN m THEN m ELSE insert(m, k, v)

\* Mutant of push_entry: the list is replaced by the new element.
push_entry_replaces(m, k, v) == insert(m, k, <<v>>)

\* m.entry(k).or_default().push(v): the map afterwards.
push_entry(m, k, v) == insert(m, k, Append(IF k \in DOMAIN m THEN m[k] ELSE <<>>, v))

\* *m.entry(k).or_default() += 1: the map afterwards.
increment_entry(m, k) == insert(m, k, (IF k \in DOMAIN m THEN m[k] ELSE 0) + 1)

(***************************************************************************)
(* FunctionName (lines 27-42) and ParsedData (lines 49-64).                *)
(***************************************************************************)
Global(name) == <<"Global", name>>
Local(object, name) == <<"Local", object, name>>

ParsedDataDefault ==
    [object_id_by_name |-> EmptyMap,
     name_by_object_id |-> EmptyMap,
     function_id_by_name |-> EmptyMap,
     name_by_function_id |-> EmptyMap,
     functions_by_object |-> EmptyMap,
     objects_by_function |-> EmptyMap,
     callers_by_callee |-> EmptyMap,
     callees_by_caller |-> EmptyMap,
     instructions_by_function |-> EmptyMap]

(***************************************************************************)
(* parse_data, first loop (lines 125-148): linkage classification.         *)
(***************************************************************************)
first_pass_line(acc, line) ==
    LET trimmed_line == trim(line)
    IN  IF starts_with(trimmed_line, DotType) /\ ends_with(trimmed_line, AtFunction)
        THEN LET function_name == slice(trimmed_line, Len(DotTypeTab),
                                        Len(trimmed_line) - Len(CommaAtFunction))
             IN  [acc EXCEPT !.function_names = @ \cup {function_name}]
        ELSE IF starts_with(trimmed_line, DotWeakTab)
        THEN LET function_name == slice(trimmed_line, Len(DotWeakTab), Len(trimmed_line))
             IN  [acc EXCEPT !.link_type_by_name = insert(@, function_name, "Weak")]
        ELSE IF starts_with(trimmed_line, DotGloblTab)
        THEN LET function_name == slice(trimmed_line, Len(DotGloblTab), Len(trimmed_line))
             IN  [acc EXCEPT !.link_type_by_name = insert(@, function_name, "Global")]
        ELSE IF starts_with(trimmed_line, DotSetTab)
        THEN LET comma_i == find(trimmed_line, ",")
             IN  IF comma_i # None
                 THEN LET old_name == slice(trimmed_line, Len(DotSetTab), comma_i[1])
                          new_name == slice(trimmed_line, comma_i[1], Len(trimmed_line))
                      IN  [acc EXCEPT !.aliases = insert(@, old_name, new_name)]
                 ELSE acc
        ELSE acc

RECURSIVE first_pass_from(_, _, _)
first_pass_from(acc, assembly, i) ==
    IF i > Len(assembly) THEN acc
    ELSE first_pass_from(first_pass_line(acc, assembly[i]), assembly, i + 1)

\* Mutant of first_pass: the directives are read in the same forward pass
\* as the bodies, so only those standing before the first label are known.
first_pass_header_only(assembly) ==
    LET labels == {i \in DOMAIN assembly : ends_with(assembly[i], Colon)}
        first == IF labels = {} THEN Len(assembly) + 1
                 ELSE CHOOSE i \in labels : \A j \in labels : i <= j
    IN  first_pass_from([function_names |-> {}, link_type_by_name |-> EmptyMap,
                         aliases |-> EmptyMap], SubSeq(assembly, 1, first - 1), 1)

first_pass(assembly) ==
    first_pass_from([function_names |-> {}, link_type_by_name |-> EmptyMap,
                     aliases |-> EmptyMap], assembly, 1)

(***************************************************************************)
(* parse_data, second loop (lines 150-173): interning the declared         *)
(* functions.  function_names is a HashSet, so the loop runs in any order. *)
(***************************************************************************)
link_type_of(link_type_by_name, function_name) ==
    IF function_name \in DOMAIN link_type_by_name
    THEN link_type_by_name[function_name] ELSE "Local"

\* Mutant of function_of: the linkage is ignored, every function is Global.
function_of_always_global(object, function_name, link_type) == Global(function_name)

\* Mutant of function_of: a local function is keyed by the first object
\* instead of the object being parsed.
function_of_first_object(object, function_name, link_type) ==
    IF link_type = "Local" THEN Local(0, function_name) ELSE Global(function_name)

\* lines 156-164
function_of(object, function_name, link_type) ==
    IF link_type = "Local" THEN Local(object, function_name) ELSE Global(function_name)

\* Mutant of intern_function: next_function_id is computed once, before the
\* loop, instead of once per function.
intern_function_hoisted_id(st, object, function_name, link_type_by_name) ==
    LET link_type == link_type_of(link_type_by_name, function_name)
        function == function_of(object, function_name, link_type)
        next_function_id == Cardinality(DOMAIN st.parsed.function_id_by_name)
                                - Cardinality(DOMAIN st.id_by_function_name)
        by_name == or_insert(st.parsed.function_id_by_name, function, next_function_id)
        function_id == by_name[function]
    IN  [parsed |-> [st.parsed EXCEPT
                        !.function_id_by_name = by_name,
                        !.name_by_function_id = insert(@, function_id, function)],
         id_by_function_name |-> insert(st.id_by_function_name, function_name, function_id)]

\* Mutant of intern_function: the next id is the size of
\* name_by_function_id instead of the size of function_id_by_name.
intern_function_counts_names(st, object, function_name, link_type_by_name) ==
    LET link_type == link_type_of(link_type_by_name, function_name)
        function == function_of(object, function_name, link_type)
        next_function_id == Cardinality(DOMAIN st.parsed.name_by_function_id)
        by_name == or_insert(st.parsed.function_id_by_name, function, next_function_id)
        function_id == by_name[function]
    IN  [parsed |-> [st.parsed EXCEPT
                        !.function_id_by_name = by_name,
                        !.name_by_function_id = insert(@, function_id, function)],
         id_by_function_name |-> insert(st.id_by_function_name, function_name, function_id)]

\* lines 153-172: one iteration of the second loop.
intern_function(st, object, function_name, link_type_by_name) ==
    LET link_type == link_type_of(link_type_by_name, function_name)
        function == function_of(object, function_name, link_type)
        next_function_id == Cardinality(DOMAIN st.parsed.function_id_by_name)
        by_name == or_insert(st.parsed.function_id_by_name, function, next_function_id)
        function_id == by_name[function]
    IN  [parsed |-> [st.parsed EXCEPT
                        !.function_id_by_name = by_name,
                        !.name_by_function_id = insert(@, function_id, function)],
         id_by_function_name |-> insert(st.id_by_function_name, function_name, function_id)]

RECURSIVE intern_from(_, _, _, _, _)
intern_from(st, object, order, link_type_by_name, i) ==
    IF i > Len(order) THEN st
    ELSE intern_from(intern_function(st, object, order[i], link_type_by_name),
                     object, order, link_type_by_name, i + 1)

\* The iteration orders of a HashSet: the sequences listing s once each.
Orders(s) == {o \in [1..Cardinality(s) -> s] : \A i, j \in DOMAIN o : o[i] = o[j] => i = j}

(***************************************************************************)
(* parse_data, third loop (lines 175-249): the body scan.  The scan state  *)
(* is [parsed, current_function, calls, defs].  calls is the trace of the  *)
(* call lines resolved so far: the caller, the operand as written (after   *)
(* the @PLT strip, before the alias lookup) and the callee id recorded;    *)
(* defs is the trace of the labels that opened a function.                 *)
(***************************************************************************)
\* lines 191-198: the name the call is resolved under.
strip_plt(callee) ==
    IF ends_with(callee, AtPLT) THEN slice(callee, 0, Len(callee) - Len(AtPLT)) ELSE callee

apply_alias(aliases, callee) ==
    IF callee \in DOMAIN aliases THEN aliases[callee] ELSE callee

\* Mutant of resolve_callee: an undeclared callee is allocated a new id
\* without looking its name up first.
resolve_callee_unconditional(p, id_by_function_name, callee) ==
    IF callee \in DOMAIN id_by_function_name
    THEN [parsed |-> p, callee_id |-> id_by_function_name[callee]]
    ELSE LET next_function_id == Cardinality(DOMAIN p.function_id_by_name)
             callee_name == Global(callee)
         IN  [parsed |-> [p EXCEPT
                            !.function_id_by_name = insert(@, callee_name, next_function_id),
                            !.name_by_function_id = insert(@, next_function_id, callee_name)],
              callee_id |-> next_function_id]

\* Mutant of resolve_callee: an undeclared callee is registered name -> id
\* only.
resolve_callee_forgets_name(p, id_by_function_name, callee) ==
    IF callee \in DOMAIN id_by_function_name
    THEN [parsed |-> p, callee_id |-> id_by_function_name[callee]]
    ELSE LET next_function_id == Cardinality(DOMAIN p.function_id_by_name)
             callee_name == Global(callee)
             by_name == or_insert(p.function_id_by_name, callee_name, next_function_id)
         IN  [parsed |-> [p EXCEPT !.function_id_by_name = by_name],
              callee_id |-> by_name[callee_name]]

\* lines 199-214: [parsed, callee_id] after resolving the callee.
resolve_callee(p, id_by_function_name, callee) ==
    IF callee \in DOMAIN id_by_function_name
    THEN [parsed |-> p, callee_id |-> id_by_function_name[callee]]
    ELSE LET next_function_id == Cardinality(DOMAIN p.function_id_by_name)
             callee_name == Global(callee)
             by_name == or_insert(p.function_id_by_name, callee_name, next_function_id)
         IN  [parsed |-> [p EXCEPT
                            !.function_id_by_name = by_name,
                            !.name_by_function_id = insert(@, next_function_id, callee_name)],
              callee_id |-> by_name[callee_name]]

\* Mutant of record_call: the adjacency lists are kept as sets, a callee
\* already listed for the caller is not recorded again.
record_call_deduplicates(p, function_id, callee_id) ==
    IF /\ function_id \in DOMAIN p.callees_by_caller
       /\ \E k \in DOMAIN p.callees_by_caller[function_id] :
              p.callees_by_caller[function_id][k] = callee_id
    THEN p
    ELSE [p EXCEPT !.callees_by_caller = push_entry(@, function_id, callee_id),
                   !.callers_by_callee = push_entry(@, callee_id, function_id)]

\* lines 215-224
record_call(p, function_id, callee_id) ==
    [p EXCEPT !.callees_by_caller = push_entry(@, function_id, callee_id),
              !.callers_by_callee = push_entry(@, callee_id, function_id)]

\* lines 186-189
count_instruction(p, function_id) ==
    [p EXCEPT !.instructions_by_function = increment_entry(@, function_id)]

\* Mutant of call_line: the callee is also recorded as a member of the object.
call_line_attaches_callee(st, trimmed_line, ctx) ==
    IF starts_with(trimmed_line, CallTab)
    THEN LET operand == slice(trimmed_line, Len(CallTab), Len(trimmed_line))
         IN  IF ~starts_with(operand, StarPercent)
             THEN LET stripped == strip_plt(operand)
                      callee == apply_alias(ctx.aliases, stripped)
                      r == resolve_callee(st.parsed, ctx.id_by_function_name, callee)
                      q == record_call(r.parsed, st.current_function[1], r.callee_id)
                  IN  [st EXCEPT
                         !.parsed = [q EXCEPT
                            !.functions_by_object = push_entry(@, ctx.object, r.callee_id),
                            !.objects_by_function = push_entry(@, r.callee_id, ctx.object)],
                         !.calls = Append(@, [caller |-> st.current_function[1],
                                              operand |-> stripped,
                                              callee |-> r.callee_id])]
             ELSE st
    ELSE st

\* Mutant of call_line: the operand is resolved whatever it starts with.
call_line_resolves_indirect(st, trimmed_line, ctx) ==
    IF starts_with(trimmed_line, CallTab)
    THEN LET operand == slice(trimmed_line, Len(CallTab), Len(trimmed_line))
             stripped == strip_plt(operand)
             callee == apply_alias(ctx.aliases, stripped)
             r == resolve_callee(st.parsed, ctx.id_by_function_name, callee)
         IN  [st EXCEPT
                !.parsed = record_call(r.parsed, st.current_function[1], r.callee_id),
                !.calls = Append(@, [caller |-> st.current_function[1],
                                     operand |-> stripped,
                                     callee |-> r.callee_id])]
    ELSE st

\* lines 190-226: a counted line of an open function.
call_line(st, trimmed_line, ctx) ==
    IF starts_with(trimmed_line, CallTab)
    THEN LET operand == slice(trimmed_line, Len(CallTab), Len(trimmed_line))
         IN  IF ~starts_with(operand, StarPercent)
             THEN LET stripped == strip_plt(operand)
                      callee == apply_alias(ctx.aliases, stripped)
                      r == resolve_callee(st.parsed, ctx.id_by_function_name, callee)
                  IN  [st EXCEPT
                         !.parsed = record_call(r.parsed, st.current_function[1], r.callee_id),
                         !.calls = Append(@, [caller |-> st.current_function[1],
                                              operand |-> stripped,
                                              callee |-> r.callee_id])]
             ELSE st
    ELSE st

\* Mutant of body_line: directive lines are counted as instructions.
body_line_counts_directives(st, line, ctx) ==
    LET function_id == st.current_function[1]
        trimmed_line == trim(line)
    IN  IF starts_with(trimmed_line, DotSizeTab)
        THEN [st EXCEPT !.current_function = None]
        ELSE call_line([st EXCEPT !.parsed = count_instruction(@, function_id)],
                       trimmed_line, ctx)

\* lines 177-226: a line read while a function is open.
body_line(st, line, ctx) ==
    LET function_id == st.current_function[1]
        trimmed_line == trim(line)
    IN  IF starts_with(trimmed_line, DotSizeTab)
        THEN [st EXCEPT !.current_function = None]
        ELSE IF starts_with(trimmed_line, Dot)
        THEN st
        ELSE call_line([st EXCEPT !.parsed = count_instruction(@, function_id)],
                       trimmed_line, ctx)

\* Mutant of open_function: the instruction count of the function starts
\* again from 0 with every body.
open_function_resets_count(st, object, function_id) ==
    [st EXCEPT !.current_function = Some(function_id),
               !.parsed = [@ EXCEPT
                    !.functions_by_object = push_entry(@, object, function_id),
                    !.objects_by_function = push_entry(@, function_id, object),
                    !.instructions_by_function = insert(@, function_id, 0)]]

\* lines 236-246
open_function(st, object, function_id) ==
    [st EXCEPT !.current_function = Some(function_id),
               !.parsed = [@ EXCEPT
                    !.functions_by_object = push_entry(@, object, function_id),
                    !.objects_by_function = push_entry(@, function_id, object)]]

\* lines 227-248: a line read while no function is open.
outside_line(st, line, ctx) ==
    IF starts_with(line, <<Tab>>) THEN st
    ELSE IF ~ends_with(line, Colon) THEN st
    ELSE LET label_name == slice(line, 0, Len(line) - 1)
         IN  IF label_name \in DOMAIN ctx.id_by_function_name
             THEN LET function_id == ctx.id_by_function_name[label_name]
                  IN  [open_function(st, ctx.object, function_id) EXCEPT
                         !.defs = Append(@, [name |-> label_name, id |-> function_id])]
             ELSE st

\* Mutant of scan_line: a label of a declared function opens that function
\* also while another function is open.
scan_line_reopens(st, line, ctx) ==
    IF /\ st.current_function # None
       /\ ~(/\ ends_with(line, Colon)
            /\ slice(line, 0, Len(line) - 1) \in DOMAIN ctx.id_by_function_name)
    THEN body_line(st, line, ctx)
    ELSE outside_line(st, line, ctx)

\* lines 177 and 227: the branch on current_function.
scan_line(st, line, ctx) ==
    IF st.current_function # None THEN body_line(st, line, ctx)
    ELSE outside_line(st, line, ctx)

RECURSIVE scan_from(_, _, _, _)
scan_from(st, assembly, ctx, i) ==
    IF i > Len(assembly) THEN st
    ELSE scan_from(scan_line(st, assembly[i], ctx), assembly, ctx, i + 1)

\* parse_data (lines 124-250) with the HashSet iterated in the given order:
\* [parsed, calls, defs, result].  parse_data returns (): whatever the text
\* holds, the caller gets no error and goes on (line 344).
parse_data(object, assembly, p, order) ==
    LET c == first_pass(assembly)
        interned == intern_from([parsed |-> p, id_by_function_name |-> EmptyMap],
                                object, order, c.link_type_by_name, 1)
        ctx == [object |-> object, aliases |-> c.aliases,
                id_by_function_name |-> interned.id_by_function_name]
        scanned == scan_from([parsed |-> interned.parsed, current_function |-> None,
                              calls |-> <<>>, defs |-> <<>>], assembly, ctx, 1)
    IN  [parsed |-> scanned.parsed, calls |-> scanned.calls, defs |-> scanned.defs,
         result |-> "Ok"]

(***************************************************************************)
(* The queries (lines 252-305).  A HashMap is iterated in any order, so    *)
(* the ranking may come out in any order that the stable sort on the       *)
(* counts allows.  unwrap() on a missing entry panics.                     *)
(***************************************************************************)
Panic(query) == [query |-> query, result |-> "Panic"]

\* Mutant of in_sort_order: the comparison is not reversed.
in_sort_order_ascending(x, y) == x <= y

\* line 254: a.1.cmp(b.1).reverse() lets x stand before y.
in_sort_order(x, y) == x >= y

print_functions_with_most_instructions(p) ==
    LET instr == p.instructions_by_function
    IN  IF \E f \in DOMAIN instr : f \notin DOMAIN p.name_by_function_id THEN {Panic("rank")}
        ELSE {[query |-> "rank", result |-> "Ok",
               lines |-> [i \in DOMAIN data |->
                            [function |-> p.name_by_function_id[data[i]],
                             instr_num |-> instr[data[i]]]]] :
              data \in {o \in Orders(DOMAIN instr) :
                          \A i, j \in DOMAIN o :
                              i < j => in_sort_order(instr[o[i]], instr[o[j]])}}

\* line 264: objects.len() == objects_num
in_all_objects(objects, objects_num) == Len(objects) = objects_num

print_functions_in_all_objects(p) ==
    LET objects_num == Cardinality(DOMAIN p.object_id_by_name)
        hits == {f \in DOMAIN p.objects_by_function :
                    in_all_objects(p.objects_by_function[f], objects_num)}
    IN  IF \E f \in hits : f \notin DOMAIN p.name_by_function_id THEN Panic("all")
        ELSE [query |-> "all", result |-> "Ok", functions |-> {p.name_by_function_id[f] : f \in hits}]

or_default(m, k) == IF k \in DOMAIN m THEN m[k] ELSE <<>>

\* Mutant of print_function_info: a function that was never interned is
\* reported with empty lists instead of the error.
print_function_info_no_error(p, function) ==
    IF function \notin DOMAIN p.function_id_by_name
    THEN [query |-> "info", function |-> function, result |-> "Ok",
          objects |-> <<>>, callers |-> <<>>, callees |-> <<>>]
    ELSE LET function_id == p.function_id_by_name[function]
             objects == or_default(p.objects_by_function, function_id)
             callers == or_default(p.callers_by_callee, function_id)
             callees == or_default(p.callees_by_caller, function_id)
         IN  [query |-> "info", function |-> function, result |-> "Ok",
              objects |-> [i \in DOMAIN objects |-> p.name_by_object_id[objects[i]]],
              callers |-> [i \in DOMAIN callers |-> p.name_by_function_id[callers[i]]],
              callees |-> [i \in DOMAIN callees |-> p.name_by_function_id[callees[i]]]]

print_function_info(p, function) ==
    IF function \notin DOMAIN p.function_id_by_name
    THEN [query |-> "info", function |-> function, result |-> "Err"]
    ELSE LET function_id == p.function_id_by_name[function]
             objects == or_default(p.objects_by_function, function_id)
             callers == or_default(p.callers_by_callee, function_id)
             callees == or_default(p.callees_by_caller, function_id)
         IN  IF \/ \E i \in DOMAIN objects : objects[i] \notin DOMAIN p.name_by_object_id
                \/ \E i \in DOMAIN callers : callers[i] \notin DOMAIN p.name_by_function_id
                \/ \E i \in DOMAIN callees : callees[i] \notin DOMAIN p.name_by_function_id
             THEN Panic("info")
             ELSE [query |-> "info", function |-> function, result |-> "Ok",
                   objects |-> [i \in DOMAIN objects |-> p.name_by_object_id[objects[i]]],
                   callers |-> [i \in DOMAIN callers |-> p.name_by_function_id[callers[i]]],
                   callees |-> [i \in DOMAIN callees |-> p.name_by_function_id[callees[i]]]]

(***************************************************************************)
(* The assembly texts the model draws from.                                *)
(***************************************************************************)
NameA == <<"a">>
NameG == <<"g">>
NameH == <<"h">>

TypeLine(n) == <<Tab>> \o DotTypeTab \o n \o CommaAtFunction
GloblLine(n) == <<Tab>> \o DotGloblTab \o n
WeakLine(n) == <<Tab>> \o DotWeakTab \o n
SetLine(old, new) == <<Tab>> \o DotSetTab \o old \o <<",">> \o new
LabelLine(n) == n \o Colon
SizeLine(n) == <<Tab>> \o DotSizeTab \o n \o <<",", " ", ".", "-">> \o n
RetLine == <<Tab, "r", "e", "t">>
CfiLine == <<Tab, ".", "c", "f", "i">>
CallLine(operand) == <<Tab>> \o CallTab \o operand

\* A local function a whose body is any sequence of up to MaxBody of these
\* lines; BodyAt numbers the sequences from 0.
BodyLines == <<RetLine, CallLine(NameG)>>

RECURSIVE BodyAt(_)
BodyAt(m) ==
    IF m = 0 THEN <<>>
    ELSE <<BodyLines[((m - 1) % Len(BodyLines)) + 1]>> \o BodyAt((m - 1) \div Len(BodyLines))

RECURSIVE NumBodies(_)
NumBodies(n) == IF n = 0 THEN 1 ELSE 1 + Len(BodyLines) * NumBodies(n - 1)

ScanText(b) == <<TypeLine(NameA), LabelLine(NameA)>> \o b \o <<SizeLine(NameA)>>

\* g defined with global, weak, late-declared global and local linkage.
GlobalDef == <<GloblLine(NameG), TypeLine(NameG), LabelLine(NameG), RetLine, SizeLine(NameG)>>
WeakDef == <<WeakLine(NameG), TypeLine(NameG), LabelLine(NameG), RetLine, RetLine,
             SizeLine(NameG)>>
LateGlobl == <<TypeLine(NameG), LabelLine(NameG), CallLine(NameA), SizeLine(NameG),
               GloblLine(NameG)>>
LocalG == <<TypeLine(NameG), LabelLine(NameG), RetLine, CallLine(NameG), SizeLine(NameG)>>
\* h declared an alias of g, called with and without g defined in the text.
AliasCall == <<SetLine(NameH, NameG), TypeLine(NameA), LabelLine(NameA), CallLine(NameH),
               SizeLine(NameA)>>
AliasDef == <<GloblLine(NameG), TypeLine(NameG), SetLine(NameH, NameG), TypeLine(NameA),
              LabelLine(NameG), RetLine, SizeLine(NameG),
              LabelLine(NameA), CallLine(NameH), CallLine(NameG), SizeLine(NameA)>>
\* h called where no alias is declared; calls through the PLT and a register.
PlainH == <<TypeLine(NameA), LabelLine(NameA), CallLine(NameH),
            CallLine(NameG \o AtPLT), CallLine(StarPercent \o <<"r", "a", "x">>),
            SizeLine(NameA)>>
\* a label of g inside the open body of a; a call line outside any body.
Nested == <<TypeLine(NameA), TypeLine(NameG), LabelLine(NameA), RetLine,
            LabelLine(NameG), RetLine, SizeLine(NameA)>>
Stray == <<CallLine(NameG), TypeLine(NameA), LabelLine(NameA), RetLine, SizeLine(NameA),
           CallLine(NameA)>>
\* g defined twice in one text; a body the text never closes; a declared
\* function the text never defines; two functions calling each other.
TwiceDef == <<GloblLine(NameG), TypeLine(NameG), LabelLine(NameG), RetLine, SizeLine(NameG),
              LabelLine(NameG), RetLine, SizeLine(NameG)>>
Directives == <<TypeLine(NameA), LabelLine(NameA), CfiLine, RetLine, CfiLine,
                CallLine(NameG), RetLine, SizeLine(NameA), CfiLine>>
NoSize == <<TypeLine(NameA), LabelLine(NameA), RetLine, CfiLine, RetLine>>
Undefined == <<TypeLine(NameA), GloblLine(NameG), TypeLine(NameG), LabelLine(NameG),
               RetLine, RetLine, RetLine, SizeLine(NameG)>>
\* g called and defined before the directives that classify it.
CalleeFirst == <<TypeLine(NameA), LabelLine(NameA), CallLine(NameG), SizeLine(NameA),
                 LabelLine(NameG), RetLine, SizeLine(NameG), GloblLine(NameG),
                 TypeLine(NameG)>>
Mutual == <<TypeLine(NameA), GloblLine(NameG), TypeLine(NameG),
            LabelLine(NameA), CallLine(NameG), CallLine(NameG), SizeLine(NameA),
            LabelLine(NameG), CallLine(NameA), RetLine, SizeLine(NameG)>>

SpecialTexts == <<<<>>, GlobalDef, WeakDef, LateGlobl, LocalG, AliasCall, AliasDef,
                  PlainH, Nested, Stray, TwiceDef, Directives, NoSize, Undefined, Mutual,
                  CalleeFirst>>

\* The texts of the model: the special ones, then ScanText of every body.
NumTexts == Len(SpecialTexts) + NumBodies(MaxBody)

TextTable ==
    [k \in 1..NumTexts |->
        IF k <= Len(SpecialTexts) THEN SpecialTexts[k]
        ELSE ScanText(BodyAt(k - Len(SpecialTexts) - 1))]

\* The object files app() analyses (lines 317-320).
Files == {"field.cc.o", "executor.cc.o"}

\* The functions print_function_info is asked about.
Queried == {Global(NameG), Local(0, NameA)}

(***************************************************************************)
(* What a text declares, read off its lines.  After a .size line no        *)
(* function is open; the first label of a declared function after it opens *)
(* that function, which stays open up to the next .size line.              *)
(***************************************************************************)
Names == {NameA, NameG, NameH}

DeclaresFunction(t, n) ==
    \E i \in DOMAIN t : trim(t[i]) = DotTypeTab \o n \o CommaAtFunction

DeclaresExternal(t, n) ==
    \E i \in DOMAIN t : trim(t[i]) \in {DotGloblTab \o n, DotWeakTab \o n}

DeclaresAlias(t, old, new) ==
    \E i \in DOMAIN t : trim(t[i]) = DotSetTab \o old \o <<",">> \o new

IsSizeLine(l) == starts_with(trim(l), DotSizeTab)

IsDirectiveLine(l) == starts_with(trim(l), Dot)

IsFunctionLabel(t, l) == \E n \in Names : DeclaresFunction(t, n) /\ l = LabelLine(n)

IsCallLine(l) == starts_with(trim(l), CallTab)

IsIndirectCallLine(l) == starts_with(trim(l), CallTab \o StarPercent)

Max(S) == CHOOSE x \in S : \A y \in S : y <= x
Min(S) == CHOOSE x \in S : \A y \in S : x <= y

LastSizeBefore(t, k) == Max({0} \cup {s \in 1..(k - 1) : IsSizeLine(t[s])})

\* The index of the label whose body line k lies in, 0 when in none.
OpeningLabel(t, k) ==
    LET labels == {i \in (LastSizeBefore(t, k) + 1)..(k - 1) : IsFunctionLabel(t, t[i])}
    IN  IF labels = {} THEN 0 ELSE Min(labels)

InBodyOf(t, k, n) == OpeningLabel(t, k) # 0 /\ t[OpeningLabel(t, k)] = LabelLine(n)

\* The elements of a set of line numbers in increasing order.
Ascending(S) ==
    CHOOSE s \in [1..Cardinality(S) -> S] : \A i, j \in 1..Cardinality(S) : i < j => s[i] < s[j]

\* The names whose labels open a body in t, in the order of their lines.
Openers(t) ==
    LET at == Ascending({k \in DOMAIN t : IsFunctionLabel(t, t[k]) /\ OpeningLabel(t, k) = 0})
    IN  [i \in DOMAIN at |-> slice(t[at[i]], 0, Len(t[at[i]]) - 1)]

Facts(t) ==
    [functions |-> {n \in Names : DeclaresFunction(t, n)},
     external |-> {n \in Names : DeclaresExternal(t, n)},
     aliases |-> {a \in Names \X Names : DeclaresAlias(t, a[1], a[2])},
     \* the non-directive lines strictly between a label of n and its .size
     counted |-> [n \in Names |->
                    {k \in DOMAIN t : InBodyOf(t, k, n) /\ ~IsDirectiveLine(t[k])}],
     \* the directive lines there
     skipped |-> [n \in Names |->
                    {k \in DOMAIN t : /\ InBodyOf(t, k, n)
                                      /\ IsDirectiveLine(t[k]) /\ ~IsSizeLine(t[k])}],
     \* the .size lines that close a body of n
     closing |-> [n \in Names |->
                    {k \in DOMAIN t : InBodyOf(t, k, n) /\ IsSizeLine(t[k])}],
     \* the label lines that open a body of n
     opening |-> [n \in Names |->
                    {k \in DOMAIN t : /\ t[k] = LabelLine(n) /\ DeclaresFunction(t, n)
                                      /\ OpeningLabel(t, k) = 0}],
     \* all label lines of the declared function n
     labels |-> [n \in Names |->
                    {k \in DOMAIN t : t[k] = LabelLine(n) /\ DeclaresFunction(t, n)}],
     \* the call lines in a body of n, by operand: direct and register-indirect
     direct |-> [n \in Names |->
                    {k \in DOMAIN t : /\ InBodyOf(t, k, n) /\ IsCallLine(t[k])
                                      /\ ~IsIndirectCallLine(t[k])}],
     indirect |-> [n \in Names |->
                    {k \in DOMAIN t : InBodyOf(t, k, n) /\ IsIndirectCallLine(t[k])}],
     \* the call lines read while no function is open
     openers |-> Openers(t),
     stray |-> {k \in DOMAIN t : IsCallLine(t[k]) /\ OpeningLabel(t, k) = 0}]

(***************************************************************************)
(* The state machine.                                                      *)
(***************************************************************************)
NoOutput == [query |-> "none"]

Init ==
    /\ corpus \in [Files -> DOMAIN TextTable]
    /\ parsed = ParsedDataDefault
    /\ history = <<>>
    /\ out = NoOutput

\* One iteration of the file loop of app() (lines 324-346).  app() runs
\* its query once, after the loop (lines 348-355): nothing follows a query.
AnalyzeFile(file) ==
    /\ out = NoOutput
    /\ Len(history) < MaxParses
    /\ LET assembly == TextTable[corpus[file]]
           next_object_id == Cardinality(DOMAIN parsed.object_id_by_name)
           by_name == or_insert(parsed.object_id_by_name, file, next_object_id)
           object == by_name[file]
           registered == [parsed EXCEPT
                            !.object_id_by_name = by_name,
                            !.name_by_object_id = or_insert(@, object, file)]
       IN  \E order \in Orders(first_pass(assembly).function_names) :
              LET r == parse_data(object, assembly, registered, order)
              IN  /\ parsed' = r.parsed
                  /\ history' = Append(history, [object |-> object, calls |-> r.calls,
                                                  defs |-> r.defs, result |-> r.result])
    /\ UNCHANGED <<corpus, out>>

MostInstructions ==
    /\ out = NoOutput
    /\ out' \in print_functions_with_most_instructions(parsed)
    /\ UNCHANGED <<corpus, parsed, history>>

InAllObjects ==
    /\ out = NoOutput
    /\ out' = print_functions_in_all_objects(parsed)
    /\ UNCHANGED <<corpus, parsed, history>>

FunctionInfo(function) ==
    /\ out = NoOutput
    /\ out' = print_function_info(parsed, function)
    /\ UNCHANGED <<corpus, parsed, history>>

Next ==
    \/ \E file \in Files : AnalyzeFile(file)
    \/ MostInstructions
    \/ InAllObjects
    \/ \E function \in Queried : FunctionInfo(function)

Spec == Init /\ [][Next]_vars

(***************************************************************************)
(* The parses so far and what their texts declare.                         *)
(***************************************************************************)
Parses == DOMAIN history

ObjectOf(i) == history[i].object

FactsTable == [k \in DOMAIN TextTable |-> Facts(TextTable[k])]

FactsOf(i) == FactsTable[corpus[parsed.name_by_object_id[ObjectOf(i)]]]

IsAliased(i, old) == \E new \in Names : <<old, new>> \in FactsOf(i).aliases

IsLocalFunction(i, n) == n \in FactsOf(i).functions \ FactsOf(i).external

IsExternalFunction(i, n) == n \in FactsOf(i).functions \cap FactsOf(i).external

\* The identity the linkage rules give name n in the object of parse i.
IdentityOf(i, n) == IF IsLocalFunction(i, n) THEN Local(ObjectOf(i), n) ELSE Global(n)

IdOf(key) ==
    IF key \in DOMAIN parsed.function_id_by_name
    THEN Some(parsed.function_id_by_name[key]) ELSE None

InternedIds == {parsed.function_id_by_name[k] : k \in DOMAIN parsed.function_id_by_name}

Elements(s) == {s[k] : k \in DOMAIN s}

(***************************************************************************)
(* C1: a name declared a function in two different parsed objects, with no *)
(* .globl/.weak in either, is interned under two different FunctionIDs.    *)
(***************************************************************************)
LocalInBoth(i, j, n) ==
    /\ ObjectOf(i) # ObjectOf(j)
    /\ IsLocalFunction(i, n)
    /\ IsLocalFunction(j, n)

C1_LocalIdentitiesDistinct ==
    \A i, j \in Parses, n \in Names :
        LocalInBoth(i, j, n) =>
            /\ IdOf(Local(ObjectOf(i), n)) # None
            /\ IdOf(Local(ObjectOf(j), n)) # None
            /\ IdOf(Local(ObjectOf(i), n)) # IdOf(Local(ObjectOf(j), n))

C1_Witness == \E i, j \in Parses, n \in Names : LocalInBoth(i, j, n)

(***************************************************************************)
(* C2: all occurrences of a global, weak or undeclared-callee name, as a   *)
(* defined function or as a call target, in whichever objects and order,   *)
(* resolve to one FunctionID.  The name of a call target is the name the   *)
(* call is resolved under; calls through a declared alias are C3's.        *)
(***************************************************************************)
DefIds(i, n) ==
    {d.id : d \in {d \in Elements(history[i].defs) :
                        d.name = n /\ IsExternalFunction(i, n)}}

CallIds(i, n) ==
    {c.callee : c \in {c \in Elements(history[i].calls) :
                        c.operand = n /\ ~IsAliased(i, n) /\ ~IsLocalFunction(i, n)}}

C2_SharedIdentity ==
    \A n \in Names :
        Cardinality(UNION {DefIds(i, n) \cup CallIds(i, n) : i \in Parses}) <= 1

C2_Witness ==
    \E n \in Names : \E i, j \in Parses :
        /\ i < j
        /\ ObjectOf(i) # ObjectOf(j)
        /\ CallIds(i, n) # {}
        /\ DefIds(j, n) # {}

(***************************************************************************)
(* C3: a call to old_name in an object whose text declares                 *)
(* .set old_name,new_name records an edge to the identity of new_name.     *)
(***************************************************************************)
C3_AliasTarget ==
    \A i \in Parses, new \in Names :
        \A c \in Elements(history[i].calls) :
            <<c.operand, new>> \in FactsOf(i).aliases =>
                IdOf(IdentityOf(i, new)) = Some(c.callee)

(***************************************************************************)
(* C4: the instruction count of every function is the number of            *)
(* non-directive lines strictly between its opening label and its closing  *)
(* .size directive, summed over the bodies scanned for that function.      *)
(***************************************************************************)
InstructionCount(f) ==
    IF f \in DOMAIN parsed.instructions_by_function
    THEN parsed.instructions_by_function[f] ELSE 0

\* The names parse i declares as functions and interns as f.
NamesOf(i, f) == {n \in FactsOf(i).functions : IdOf(IdentityOf(i, n)) = Some(f)}

\* The counted lines of the bodies of identity f in the text of parse i.
CountedIn(i, f) == UNION {FactsOf(i).counted[n] : n \in NamesOf(i, f)}

ExpectedCount(f) ==
    Cardinality(UNION {{<<i, k>> : k \in CountedIn(i, f)} : i \in Parses})

C4_InstructionCount ==
    \A f \in InternedIds \cup DOMAIN parsed.instructions_by_function :
        InstructionCount(f) = ExpectedCount(f)

C4_Witness ==
    \E i \in Parses, n \in Names :
        /\ n \in FactsOf(i).functions
        /\ FactsOf(i).counted[n] # {}
        /\ FactsOf(i).skipped[n] # {}
        /\ FactsOf(i).closing[n] # {}
        /\ IdOf(IdentityOf(i, n)) # None
        /\ InstructionCount(IdOf(IdentityOf(i, n))[1]) >= 2

(***************************************************************************)
(* C5: the functions-in-all-objects query reports a function exactly when  *)
(* the number of distinct objects it is recorded as defined in equals the  *)
(* number of distinct objects parsed so far.                               *)
(***************************************************************************)
ParsedObjects == {ObjectOf(i) : i \in Parses}

DefinedInAllObjects ==
    {f \in DOMAIN parsed.objects_by_function :
        Cardinality(Elements(parsed.objects_by_function[f])) = Cardinality(ParsedObjects)}

C5_InAllObjects ==
    out.query = "all" =>
        /\ out.result = "Ok"
        /\ out.functions = {parsed.name_by_function_id[f] : f \in DefinedInAllObjects}

(***************************************************************************)
(* C6: every step leaves each name->id binding, each id->name binding of   *)
(* an interned id, each membership entry and each call edge in place:      *)
(* maps only gain keys and lists only gain elements at the end.            *)
(***************************************************************************)
PrefixOf(a, b) == Len(a) <= Len(b) /\ SubSeq(b, 1, Len(a)) = a

MapExtends(m, n) == \A k \in DOMAIN m : k \in DOMAIN n /\ n[k] = m[k]

ListsExtend(m, n) == \A k \in DOMAIN m : k \in DOMAIN n /\ PrefixOf(m[k], n[k])

Extends(p, q) ==
    /\ MapExtends(p.object_id_by_name, q.object_id_by_name)
    /\ MapExtends(p.name_by_object_id, q.name_by_object_id)
    /\ MapExtends(p.function_id_by_name, q.function_id_by_name)
    /\ \A k \in DOMAIN p.function_id_by_name :
          LET f == p.function_id_by_name[k]
          IN  /\ f \in DOMAIN p.name_by_function_id
              /\ f \in DOMAIN q.name_by_function_id
              /\ q.name_by_function_id[f] = p.name_by_function_id[f]
    /\ DOMAIN p.name_by_function_id \subseteq DOMAIN q.name_by_function_id
    /\ ListsExtend(p.functions_by_object, q.functions_by_object)
    /\ ListsExtend(p.objects_by_function, q.objects_by_function)
    /\ ListsExtend(p.callers_by_callee, q.callers_by_callee)
    /\ ListsExtend(p.callees_by_caller, q.callees_by_caller)
    /\ DOMAIN p.instructions_by_function \subseteq DOMAIN q.instructions_by_function

C6_PureExtension == [][Extends(parsed, parsed')]_vars

C6_Witness ==
    /\ Len(history) = 2
    /\ history[1].defs # <<>> /\ history[1].calls # <<>>
    /\ history[2].defs # <<>> /\ history[2].calls # <<>>
    /\ \E c \in Elements(history[1].calls), d \in Elements(history[2].calls) :
          c.caller = d.caller

(***************************************************************************)
(* C7: parsing one text into a fresh ParsedData twice gives the same       *)
(* ParsedData up to a renumbering of the FunctionIDs, whatever order the   *)
(* HashSet of function names is iterated in.                               *)
(***************************************************************************)
IdsOf(p) ==
    {p.function_id_by_name[k] : k \in DOMAIN p.function_id_by_name}
        \cup DOMAIN p.name_by_function_id
        \cup DOMAIN p.objects_by_function
        \cup DOMAIN p.callers_by_callee
        \cup DOMAIN p.callees_by_caller
        \cup DOMAIN p.instructions_by_function
        \cup UNION {Elements(p.functions_by_object[o]) : o \in DOMAIN p.functions_by_object}

\* m with its keys renumbered by the injection pi.
RenameKeys(m, pi) ==
    [x \in {pi[k] : k \in DOMAIN m} |-> m[CHOOSE k \in DOMAIN m : pi[k] = x]]

RenameList(l, pi) == [i \in DOMAIN l |-> pi[l[i]]]

Renumbered(p, pi) ==
    [object_id_by_name |-> p.object_id_by_name,
     name_by_object_id |-> p.name_by_object_id,
     function_id_by_name |->
        [k \in DOMAIN p.function_id_by_name |-> pi[p.function_id_by_name[k]]],
     name_by_function_id |-> RenameKeys(p.name_by_function_id, pi),
     functions_by_object |->
        [o \in DOMAIN p.functions_by_object |-> RenameList(p.functions_by_object[o], pi)],
     objects_by_function |-> RenameKeys(p.objects_by_function, pi),
     callers_by_callee |->
        RenameKeys([f \in DOMAIN p.callers_by_callee |->
                        RenameList(p.callers_by_callee[f], pi)], pi),
     callees_by_caller |->
        RenameKeys([f \in DOMAIN p.callees_by_caller |->
                        RenameList(p.callees_by_caller[f], pi)], pi),
     instructions_by_function |-> RenameKeys(p.instructions_by_function, pi)]

Isomorphic(p, q) ==
    \E pi \in [IdsOf(q) -> IdsOf(p)] :
        /\ \A x, y \in IdsOf(q) : pi[x] = pi[y] => x = y
        /\ \A k \in DOMAIN q.function_id_by_name :
              /\ k \in DOMAIN p.function_id_by_name
              /\ pi[q.function_id_by_name[k]] = p.function_id_by_name[k]
        /\ Renumbered(q, pi) = p

\* The first file analysed, parsed once more into a fresh ParsedData.
FirstFile == parsed.name_by_object_id[0]

SecondRun ==
    LET assembly == TextTable[corpus[FirstFile]]
        fresh == [ParsedDataDefault EXCEPT !.object_id_by_name = insert(@, FirstFile, 0),
                                           !.name_by_object_id = insert(@, 0, FirstFile)]
        order == CHOOSE o \in Orders(first_pass(assembly).function_names) : TRUE
    IN  parse_data(0, assembly, fresh, order).parsed

C7_Idempotence == Len(history) = 1 => Isomorphic(parsed, SecondRun)

C7_Witness ==
    /\ Len(history) = 1
    /\ parsed # SecondRun
    /\ parsed.callees_by_caller # EmptyMap
    /\ parsed.instructions_by_function # EmptyMap

(***************************************************************************)
(* C8: the function report fails exactly when the function was never       *)
(* interned; otherwise it returns the defining objects, direct callers and *)
(* direct callees recorded for it, empty when none were; either way the    *)
(* ParsedData is left as it was.                                           *)
(***************************************************************************)
RecordedFor(m, k) == IF k \in DOMAIN m THEN m[k] ELSE <<>>

ReportMatches(o, p) ==
    /\ o.result # "Panic"
    /\ o.result = "Err" <=> o.function \notin DOMAIN p.function_id_by_name
    /\ o.result = "Ok" =>
          LET f == p.function_id_by_name[o.function]
              objects == RecordedFor(p.objects_by_function, f)
              callers == RecordedFor(p.callers_by_callee, f)
              callees == RecordedFor(p.callees_by_caller, f)
          IN  /\ Len(o.objects) = Len(objects)
              /\ \A i \in DOMAIN objects : p.object_id_by_name[o.objects[i]] = objects[i]
              /\ Len(o.callers) = Len(callers)
              /\ \A i \in DOMAIN callers : p.function_id_by_name[o.callers[i]] = callers[i]
              /\ Len(o.callees) = Len(callees)
              /\ \A i \in DOMAIN callees : p.function_id_by_name[o.callees[i]] = callees[i]

C8_FunctionReport ==
    [][out'.query = "info" => (parsed' = parsed /\ ReportMatches(out', parsed))]_vars

C8_Witness ==
    /\ out.query = "info" /\ out.result = "Ok"
    /\ out.objects # <<>> /\ out.callers # <<>> /\ out.callees = <<>>

(***************************************************************************)
(* C9: a function is a member of an object only if a label of it opened a  *)
(* body in that object's text; an identity that an object only calls is    *)
(* not a member of that object.                                            *)
(***************************************************************************)
DefinedIn(o, f) ==
    \E i \in Parses :
        /\ ObjectOf(i) = o
        /\ \E n \in FactsOf(i).functions :
              FactsOf(i).opening[n] # {} /\ IdOf(IdentityOf(i, n)) = Some(f)

C9_MembershipOnlyWhereDefined ==
    /\ \A o \in DOMAIN parsed.functions_by_object :
          \A f \in Elements(parsed.functions_by_object[o]) : DefinedIn(o, f)
    /\ \A f \in DOMAIN parsed.objects_by_function :
          \A o \in Elements(parsed.objects_by_function[f]) : DefinedIn(o, f)

C9_Witness ==
    \E i \in Parses : \E c \in Elements(history[i].calls) :
        /\ ~DefinedIn(ObjectOf(i), c.callee)
        /\ DefinedIn(ObjectOf(i), c.caller)
        /\ \E j \in Parses : ObjectOf(j) # ObjectOf(i) /\ DefinedIn(ObjectOf(j), c.callee)

(***************************************************************************)
(* C10: the ranking lists exactly the functions with an instruction count  *)
(* above 0, each once with its count, in non-increasing order of count; an *)
(* interned function without counted instruction is not listed.            *)
(***************************************************************************)
CountedFunctions ==
    {f \in InternedIds \cup DOMAIN parsed.instructions_by_function : InstructionCount(f) > 0}

C10_Ranking ==
    out.query = "rank" =>
        /\ out.result = "Ok"
        /\ Len(out.lines) = Cardinality(CountedFunctions)
        /\ Elements(out.lines) =
              {[function |-> parsed.name_by_function_id[f], instr_num |-> InstructionCount(f)] :
                  f \in CountedFunctions}
        /\ \A i, j \in DOMAIN out.lines :
              /\ i < j => out.lines[i].instr_num >= out.lines[j].instr_num
              /\ i # j => out.lines[i].function # out.lines[j].function
        /\ \A k \in DOMAIN parsed.function_id_by_name :
              InstructionCount(parsed.function_id_by_name[k]) = 0 =>
                  \A i \in DOMAIN out.lines : out.lines[i].function # k

C10_Witness ==
    /\ out.query = "rank" /\ out.result = "Ok"
    /\ Len(out.lines) >= 2
    /\ out.lines[1].instr_num > out.lines[2].instr_num
    /\ \E k \in DOMAIN parsed.function_id_by_name :
          InstructionCount(parsed.function_id_by_name[k]) = 0

(***************************************************************************)
(* C11: a parse whose text holds a call line where no function is open     *)
(* reports an error to its caller instead of skipping the line.            *)
(***************************************************************************)
C11_StrayCallReported ==
    \A i \in Parses : FactsOf(i).stray # {} => history[i].result = "Err"

(***************************************************************************)
(* C12: the label lines of declared functions and the .size lines drive    *)
(* the scan.  As claimed, every such label line opens its function and     *)
(* records it as defined in the object, also one read before the .size of  *)
(* the function before it.                                                 *)
(***************************************************************************)
LabelLines(i) == UNION {{<<n, k>> : k \in FactsOf(i).labels[n]} : n \in Names}

C12_EveryLabelOpens ==
    \A i \in Parses : Len(history[i].defs) = Cardinality(LabelLines(i))

(***************************************************************************)
(* C12 as amended: a label line of a declared function opens it and        *)
(* records it as defined in the object exactly when no function is open,   *)
(* that is at the start of the text or after a .size line closed the       *)
(* function before it; a label read while a function is open opens         *)
(* nothing.  The membership lists hold the opened functions in text order. *)
(***************************************************************************)
DefNames(i) == [k \in DOMAIN history[i].defs |-> history[i].defs[k].name]

DefsOf(i) == [k \in DOMAIN history[i].defs |-> history[i].defs[k].id]

RECURSIVE MembersUpTo(_, _)
MembersUpTo(o, i) ==
    IF i = 0 THEN <<>>
    ELSE MembersUpTo(o, i - 1) \o (IF ObjectOf(i) = o THEN DefsOf(i) ELSE <<>>)

Occurrences(l, x) == Cardinality({k \in DOMAIN l : l[k] = x})

C12_LabelOpensWhenClosed ==
    /\ \A i \in Parses :
          /\ DefNames(i) = FactsOf(i).openers
          /\ \A d \in Elements(history[i].defs) :
                IdOf(IdentityOf(i, d.name)) = Some(d.id)
    /\ \A o \in ParsedObjects :
          RecordedFor(parsed.functions_by_object, o) = MembersUpTo(o, Len(history))
    /\ \A o \in ParsedObjects, f \in InternedIds :
          Occurrences(RecordedFor(parsed.objects_by_function, f), o)
              = Occurrences(MembersUpTo(o, Len(history)), f)

C12_Witness ==
    \E i, j \in Parses : \E n \in Names :
        /\ FactsOf(i).labels[n] # FactsOf(i).opening[n]
        /\ history[i].defs # <<>>
        /\ Cardinality(FactsOf(j).opening[n]) = 2

(***************************************************************************)
(* C13: the identities and edges of a parse do not depend on where the     *)
(* .type/.globl/.weak directives stand: the text with these lines moved to *)
(* its front, and with them moved to its end, parses to the same           *)
(* ParsedData (up to the numbering of the ids), and one parse mints at     *)
(* most one identity per raw name.                                         *)
(***************************************************************************)
IsLinkageDirective(l) ==
    \/ starts_with(trim(l), DotType) /\ ends_with(trim(l), AtFunction)
    \/ starts_with(trim(l), DotWeakTab)
    \/ starts_with(trim(l), DotGloblTab)

IsOtherLine(l) == ~IsLinkageDirective(l)

DirectivesFirst(t) == SelectSeq(t, IsLinkageDirective) \o SelectSeq(t, IsOtherLine)

DirectivesLast(t) == SelectSeq(t, IsOtherLine) \o SelectSeq(t, IsLinkageDirective)

\* The first file analysed with text t, parsed into a fresh ParsedData.
FreshParse(t) ==
    LET fresh == [ParsedDataDefault EXCEPT !.object_id_by_name = insert(@, FirstFile, 0),
                                           !.name_by_object_id = insert(@, 0, FirstFile)]
        order == CHOOSE o \in Orders(first_pass(t).function_names) : TRUE
    IN  parse_data(0, t, fresh, order).parsed

RawName(key) == key[Len(key)]

FirstText == TextTable[corpus[FirstFile]]

C13_DirectivePosition ==
    Len(history) = 1 =>
        /\ Isomorphic(parsed, FreshParse(DirectivesFirst(FirstText)))
        /\ Isomorphic(parsed, FreshParse(DirectivesLast(FirstText)))
        /\ \A k1, k2 \in DOMAIN parsed.function_id_by_name :
              RawName(k1) = RawName(k2) => k1 = k2

\* A name with a call line and a label line that both stand before its
\* .globl directive.
C13_Witness ==
    /\ Len(history) = 1
    /\ \E n \in Names : \E c, l, d \in DOMAIN FirstText :
          /\ c < d /\ l < d
          /\ FirstText[c] = CallLine(n) /\ c \in FactsOf(1).direct[NameA]
          /\ FirstText[l] = LabelLine(n) /\ l \in FactsOf(1).opening[n]
          /\ FirstText[d] = GloblLine(n)
    /\ \E c \in Elements(history[1].calls), d \in Elements(history[1].defs) :
          c.callee = d.id /\ c.caller # d.id

(***************************************************************************)
(* C14: for all functions A and B, B occurs in callees_by_caller[A] as     *)
(* often as A occurs in callers_by_callee[B], and as often as a direct     *)
(* call line to B was scanned in a body of A; the call lines scanned for A *)
(* are the direct call lines in the bodies of A in the texts.              *)
(***************************************************************************)
CallsScanned(A, B) ==
    Cardinality(UNION {{<<i, k>> : k \in {k \in DOMAIN history[i].calls :
                                            /\ history[i].calls[k].caller = A
                                            /\ history[i].calls[k].callee = B}} :
                       i \in Parses})

CallsScannedFrom(i, A) ==
    Cardinality({k \in DOMAIN history[i].calls : history[i].calls[k].caller = A})

DirectCallLines(i, A) == UNION {FactsOf(i).direct[n] : n \in NamesOf(i, A)}

AdjacencyIds ==
    InternedIds \cup DOMAIN parsed.callees_by_caller \cup DOMAIN parsed.callers_by_callee

C14_AdjacencyMirror ==
    /\ \A A, B \in AdjacencyIds :
          /\ Occurrences(RecordedFor(parsed.callees_by_caller, A), B) = CallsScanned(A, B)
          /\ Occurrences(RecordedFor(parsed.callers_by_callee, B), A) = CallsScanned(A, B)
    /\ \A i \in Parses, A \in AdjacencyIds :
          CallsScannedFrom(i, A) = Cardinality(DirectCallLines(i, A))

C14_Witness ==
    \E A, B, C \in InternedIds :
        /\ A # B /\ B # C
        /\ Occurrences(RecordedFor(parsed.callees_by_caller, A), B) >= 2
        /\ Occurrences(RecordedFor(parsed.callers_by_callee, B), C) = 1

(***************************************************************************)
(* C15: a register-indirect call line in an open function only adds one to *)
(* the instruction count of that function.  Every parse leaves the         *)
(* ParsedData that the parse of the text without its indirect call lines   *)
(* leaves, but for the instruction counts, which are higher by the number  *)
(* of indirect call lines in the bodies of each function.                  *)
(***************************************************************************)
IsNotIndirectCallLine(l) == ~IsIndirectCallLine(l)

WithoutIndirect(t) == SelectSeq(t, IsNotIndirectCallLine)

RegisteredAs(p, file, object) ==
    [p EXCEPT !.object_id_by_name = or_insert(@, file, object),
              !.name_by_object_id = or_insert(@, object, file)]

\* The indirect call lines in the bodies of id f, in the text with facts
\* fa parsed as object into q.
IndirectLines(fa, object, q, f) ==
    UNION {fa.indirect[n] :
            n \in {n \in fa.functions :
                    LET key == IF n \in fa.external THEN Global(n) ELSE Local(object, n)
                    IN  key \in DOMAIN q.function_id_by_name
                            /\ q.function_id_by_name[key] = f}}

CountIn(p, f) ==
    IF f \in DOMAIN p.instructions_by_function THEN p.instructions_by_function[f] ELSE 0

OnlyCounted(p, q, object, file) ==
    LET k == corpus[file]
        fa == FactsTable[k]
    IN  \E order \in Orders(fa.functions) :
            LET r == parse_data(object, WithoutIndirect(TextTable[k]),
                                RegisteredAs(p, file, object), order).parsed
            IN  /\ [q EXCEPT !.instructions_by_function = EmptyMap]
                      = [r EXCEPT !.instructions_by_function = EmptyMap]
                /\ \A f \in DOMAIN q.instructions_by_function
                              \cup DOMAIN r.instructions_by_function :
                      CountIn(q, f) = CountIn(r, f)
                                        + Cardinality(IndirectLines(fa, object, q, f))

C15_IndirectCall ==
    [][Len(history') = Len(history) + 1 =>
          LET object == history'[Len(history')].object
          IN  OnlyCounted(parsed, parsed', object, parsed'.name_by_object_id[object])]_vars

C15_Witness ==
    \E i \in Parses, n \in Names :
        /\ FactsOf(i).indirect[n] # {}
        /\ FactsOf(i).direct[n] # {}
        /\ IdOf(IdentityOf(i, n)) # None
        /\ InstructionCount(IdOf(IdentityOf(i, n))[1]) >= 3

(***************************************************************************)
(* C16: a function interned as Local{O, name} is recorded as defined under *)
(* no object but O, in objects_by_function and in functions_by_object, and *)
(* where a label of it opens a body in a text of O it is recorded as       *)
(* defined in O.                                                           *)
(***************************************************************************)
LocalKeys == {k \in DOMAIN parsed.function_id_by_name : k[1] = "Local"}

DefiningObjects(f) ==
    Elements(RecordedFor(parsed.objects_by_function, f))
        \cup {o \in DOMAIN parsed.functions_by_object :
                f \in Elements(parsed.functions_by_object[o])}

C17_ExactInverses ==
    /\ Cardinality(DOMAIN parsed.function_id_by_name)
          = Cardinality(DOMAIN parsed.name_by_function_id)
    /\ \A n \in DOMAIN parsed.function_id_by_name :
          /\ parsed.function_id_by_name[n] \in DOMAIN parsed.name_by_function_id
          /\ parsed.name_by_function_id[parsed.function_id_by_name[n]] = n
    /\ DOMAIN parsed.name_by_function_id \subseteq InternedIds

(***************************************************************************)
(* C18: a parse adds to the instruction count of each function the number  *)
(* of non-directive lines in the bodies of that function in the parsed     *)
(* text, whatever was counted for it before, and leaves the count of every *)
(* other function as it was; no step lowers a count.                       *)
(***************************************************************************)
\* The counted lines in the bodies of id f, in the text with facts fa
\* parsed as object into q.
CountedLines(fa, object, q, f) ==
    UNION {fa.counted[n] :
            n \in {n \in fa.functions :
                    LET key == IF n \in fa.external THEN Global(n) ELSE Local(object, n)
                    IN  key \in DOMAIN q.function_id_by_name
                            /\ q.function_id_by_name[key] = f}}

CountsAdded(p, q, object, file) ==
    \A f \in DOMAIN p.instructions_by_function \cup DOMAIN q.instructions_by_function
              \cup {q.function_id_by_name[k] : k \in DOMAIN q.function_id_by_name} :
        CountIn(q, f) = CountIn(p, f)
                          + Cardinality(CountedLines(FactsTable[corpus[file]], object, q, f))

C18_AdditiveCounts ==
    [][/\ \A f \in DOMAIN parsed.instructions_by_function :
              CountIn(parsed', f) >= CountIn(parsed, f)
       /\ Len(history') = Len(history) + 1 =>
              LET object == history'[Len(history')].object
              IN  CountsAdded(parsed, parsed', object, parsed'.name_by_object_id[object])]_vars

C18_Witness ==
    /\ Len(history) = 2
    /\ ObjectOf(1) # ObjectOf(2)
    /\ \E f, g \in InternedIds :
          /\ CountedIn(1, f) # {} /\ CountedIn(2, f) # {}
          /\ CountedIn(1, g) # {} /\ CountedIn(2, g) = {}
          /\ InstructionCount(f)
                = Cardinality(CountedIn(1, f)) + Cardinality(CountedIn(2, f))

(***************************************************************************)
(* C19: function_id_by_name maps different names to different ids, its ids *)
(* are exactly 0 .. n-1 for n interned names, and no step gives the id of  *)
(* a name to another name.                                                 *)
(***************************************************************************)
NameOfId(p, f) == {k \in DOMAIN p.function_id_by_name : p.function_id_by_name[k] = f}

C19_IdAllocation ==
    [][/\ \A k1, k2 \in DOMAIN parsed'.function_id_by_name :
              parsed'.function_id_by_name[k1] = parsed'.function_id_by_name[k2] => k1 = k2
       /\ {parsed'.function_id_by_name[k] : k \in DOMAIN parsed'.function_id_by_name}
              = 0..(Cardinality(DOMAIN parsed'.function_id_by_name) - 1)
       /\ \A k \in DOMAIN parsed.function_id_by_name :
              NameOfId(parsed', parsed.function_id_by_name[k]) = {k}]_vars

C19_Witness ==
    /\ Len(history) = 2
    /\ Cardinality(DOMAIN parsed.function_id_by_name) >= 4
    /\ Cardinality(DOMAIN parsed.name_by_function_id)
          > Cardinality(DOMAIN parsed.function_id_by_name)
    /\ \E k \in DOMAIN parsed.function_id_by_name :
          /\ k[1] = "Global"
          /\ \A c \in Elements(history[1].calls) : c.callee # parsed.function_id_by_name[k]
          /\ \E c \in Elements(history[2].calls) : c.callee = parsed.function_id_by_name[k]

(***************************************************************************)
(* C20: every FunctionID that is a key or an element of                    *)
(* instructions_by_function, objects_by_function, functions_by_object,     *)
(* callers_by_callee or callees_by_caller is an interned id with an entry  *)
(* in name_by_function_id, and no query panics in an unwrap().             *)
(***************************************************************************)
ListedIn(m) == UNION {Elements(m[k]) : k \in DOMAIN m}

TableIds ==
    DOMAIN parsed.instructions_by_function
        \cup DOMAIN parsed.objects_by_function
        \cup ListedIn(parsed.functions_by_object)
        \cup DOMAIN parsed.callers_by_callee \cup ListedIn(parsed.callers_by_callee)
        \cup DOMAIN parsed.callees_by_caller \cup ListedIn(parsed.callees_by_caller)

C20_TableIdsInterned ==
    /\ TableIds \subseteq InternedIds
    /\ TableIds \subseteq DOMAIN parsed.name_by_function_id
    /\ out # NoOutput => out.result # "Panic"

C20_Witness ==
    /\ out.query = "info" /\ out.result = "Ok"
    /\ out.callers # <<>> /\ out.callees # <<>> /\ out.objects # <<>>
    /\ DOMAIN parsed.instructions_by_function # {}
    /\ DOMAIN parsed.name_by_function_id # InternedIds
    /\ \E f \in TableIds : f \notin ListedIn(parsed.functions_by_object)

====
